---- MODULE Spec2Model ----
(***************************************************************************)
(* Model of src/config.rs of the testnet-12 faucet: the KAS -> sompi       *)
(* decimal converter (parse_kas_to_sompi), the three-shape deserializer of *)
(* the amount_per_claim field (deserialize_amount_per_claim) and the       *)
(* default configuration (Config::default).                                *)
(*                                                                         *)
(* Text is a sequence of one-character strings.  A u64 is an exact natural *)
(* number kept as its little-endian sequence of decimal digits without     *)
(* high zeros (0 is << >>), so that values up to and beyond 2^64 - 1 are   *)
(* computed exactly and every overflow check of the code is decided on the *)
(* true value.                                                             *)
(***************************************************************************)
EXTENDS Integers, Sequences, FiniteSets, TLC

VARIABLES input, pc, out, convCalled, config

vars == <<input, pc, out, convCalled, config>>

----------------------------------------------------------------------------
(* Characters *)

Digit == {"0", "1", "2", "3", "4", "5", "6", "7", "8", "9"}

\* char::to_digit(10)
DigitVal(c) ==
    CASE c = "0" -> 0 [] c = "1" -> 1 [] c = "2" -> 2 [] c = "3" -> 3
      [] c = "4" -> 4 [] c = "5" -> 5 [] c = "6" -> 6 [] c = "7" -> 7
      [] c = "8" -> 8 [] c = "9" -> 9

\* char::is_whitespace, restricted to the ASCII white space
IsWhite(c) == c \in {" ", "\t", "\n", "\r"}

----------------------------------------------------------------------------
(* Exact naturals: little-endian decimal digits, no high zeros *)

RECURSIVE Norm(_)
Norm(n) ==
    IF n = <<>> THEN <<>>
    ELSE IF n[Len(n)] = 0 THEN Norm(SubSeq(n, 1, Len(n) - 1))
    ELSE n

RECURSIVE Nat2N(_)
Nat2N(k) == IF k = 0 THEN <<>> ELSE <<k % 10>> \o Nat2N(k \div 10)

RECURSIVE AddC(_, _, _)
AddC(a, b, carry) ==
    IF a = <<>> /\ b = <<>>
    THEN (IF carry = 0 THEN <<>> ELSE <<carry>>)
    ELSE LET x == IF a = <<>> THEN 0 ELSE Head(a)
             y == IF b = <<>> THEN 0 ELSE Head(b)
             t == x + y + carry
         IN  <<t % 10>> \o AddC(IF a = <<>> THEN <<>> ELSE Tail(a),
                                IF b = <<>> THEN <<>> ELSE Tail(b),
                                t \div 10)

AddN(a, b) == Norm(AddC(a, b, 0))

RECURSIVE MulDigitC(_, _, _)
MulDigitC(a, d, carry) ==
    IF a = <<>>
    THEN (IF carry = 0 THEN <<>> ELSE <<carry>>)
    ELSE LET t == Head(a) * d + carry
         IN  <<t % 10>> \o MulDigitC(Tail(a), d, t \div 10)

RECURSIVE MulN(_, _)
MulN(a, b) ==
    IF a = <<>> \/ b = <<>> THEN <<>>
    ELSE AddN(Norm(MulDigitC(a, Head(b), 0)),
              LET r == MulN(a, Tail(b)) IN IF r = <<>> THEN <<>> ELSE <<0>> \o r)

RECURSIVE LeqFrom(_, _, _)
LeqFrom(a, b, i) ==
    IF i = 0 THEN TRUE
    ELSE IF a[i] # b[i] THEN a[i] < b[i]
    ELSE LeqFrom(a, b, i - 1)

LeqN(a, b) ==
    IF Len(a) # Len(b) THEN Len(a) < Len(b) ELSE LeqFrom(a, b, Len(a))

RECURSIVE DecN(_)
DecN(n) ==
    IF Head(n) = 0 THEN <<9>> \o DecN(Tail(n))
    ELSE Norm(<<Head(n) - 1>> \o Tail(n))

RECURSIVE Pow2N(_)
Pow2N(k) ==
    IF k = 0 THEN <<1>>
    ELSE IF k % 2 = 1 THEN MulN(<<2>>, Pow2N(k - 1))
    ELSE LET h == Pow2N(k \div 2) IN MulN(h, h)

U64_BITS == 64

\* u64::MAX = 2^64 - 1 = 18446744073709551615
U64_MAX == DecN(Pow2N(U64_BITS))

IsU64(n) == LeqN(n, U64_MAX)

----------------------------------------------------------------------------
(* Result<u64, String> and Option<u64> *)

Ok(v)  == [ok |-> TRUE,  val |-> v,    err |-> ""]
Err(e) == [ok |-> FALSE, val |-> <<>>, err |-> e]

\* u64::checked_mul
checked_mul(a, b) ==
    LET p == MulN(a, b) IN IF IsU64(p) THEN Ok(p) ELSE Err("None")

\* Faulty variant of checked_add: the sum is returned without the range check
unchecked_add(a, b) == Ok(AddN(a, b))

\* u64::checked_add
checked_add(a, b) ==
    LET s == AddN(a, b) IN IF IsU64(s) THEN Ok(s) ELSE Err("None")

\* The digit loop of <u64 as FromStr>::from_str:
\* result = result.checked_mul(10)?.checked_add(digit)?
RECURSIVE FromStrLoop(_, _)
FromStrLoop(digits, result) ==
    IF digits = <<>> THEN Ok(result)
    ELSE IF Head(digits) \notin Digit THEN Err("InvalidDigit")
    ELSE LET m == checked_mul(result, Nat2N(10))
         IN  IF ~m.ok THEN Err("PosOverflow")
             ELSE LET a == checked_add(m.val, Nat2N(DigitVal(Head(digits))))
                  IN  IF ~a.ok THEN Err("PosOverflow")
                      ELSE FromStrLoop(Tail(digits), a.val)

\* str::parse::<u64>(): empty is an error, a lone sign is an error, one
\* leading '+' is skipped, '-' is not a digit of an unsigned type.
parse_u64(src) ==
    IF src = <<>> THEN Err("Empty")
    ELSE IF Head(src) \in {"+", "-"} /\ Len(src) = 1 THEN Err("InvalidDigit")
    ELSE IF Head(src) = "+" THEN FromStrLoop(Tail(src), <<>>)
    ELSE FromStrLoop(src, <<>>)

----------------------------------------------------------------------------
(* str helpers *)

RECURSIVE TrimStart(_)
TrimStart(s) ==
    IF s # <<>> /\ IsWhite(Head(s)) THEN TrimStart(Tail(s)) ELSE s

RECURSIVE TrimEnd(_)
TrimEnd(s) ==
    IF s # <<>> /\ IsWhite(s[Len(s)]) THEN TrimEnd(SubSeq(s, 1, Len(s) - 1)) ELSE s

\* str::trim
trim(s) == TrimEnd(TrimStart(s))

\* str::split(sep) collected: always at least one segment
RECURSIVE SplitAcc(_, _, _)
SplitAcc(s, sep, cur) ==
    IF s = <<>> THEN <<cur>>
    ELSE IF Head(s) = sep THEN <<cur>> \o SplitAcc(Tail(s), sep, <<>>)
    ELSE SplitAcc(Tail(s), sep, Append(cur, Head(s)))

split(s, sep) == SplitAcc(s, sep, <<>>)

\* while frac_padded.len() < 8 { frac_padded.push('0') }
RECURSIVE PadZeros(_, _)
PadZeros(s, n) == IF Len(s) < n THEN PadZeros(Append(s, "0"), n) ELSE s

----------------------------------------------------------------------------
(* Error messages of config.rs, under the names of the error taxonomy *)

EmptyAmount           == "amount is empty"
TooManyDecimalPoints  == "invalid amount: too many decimal points"
InvalidWholePart      == "invalid amount: whole part is not a number"
TooManyDecimals       == "invalid amount: max 8 decimal places"
InvalidFractionalPart == "invalid amount: fractional part is not a number"
AmountOverflow        == "amount overflows u64"
InvalidFloatAmount    == "amount_per_claim must be a finite number >= 0"
EmptyTextAmount       == "amount_per_claim is empty"
InvalidIntegerText    == "amount_per_claim must be a u64 sompi integer or a KAS decimal string"

SOMPI_PER_KAS == 100000000

FRAC_DIGITS == 8

----------------------------------------------------------------------------
(* parse_kas_to_sompi *)

\* parts.next().unwrap_or("0").trim()
WholeSegment(parts) == trim(IF Len(parts) >= 1 THEN parts[1] ELSE <<"0">>)

\* frac.unwrap_or("").trim()
FracSegment(parts) == trim(IF Len(parts) >= 2 THEN parts[2] ELSE <<>>)

\* Faulty variant of frac_padded: the fraction is left as written
frac_unpadded(frac_str) == frac_str

\* let mut frac_padded = frac_str.to_string(); padded to 8 characters
frac_padded(frac_str) == PadZeros(frac_str, FRAC_DIGITS)

\* frac_value: the padded fraction parsed, 0 when it is empty
FracValue(padded) ==
    IF padded = <<>> THEN Ok(<<>>) ELSE parse_u64(padded)

\* whole.checked_mul(SOMPI_PER_KAS).and_then(|v| v.checked_add(frac_value))
\*      .ok_or_else(|| "amount overflows u64")
ScaleAndAdd(whole, frac_value) ==
    LET m == checked_mul(whole, Nat2N(SOMPI_PER_KAS))
    IN  IF ~m.ok THEN Err(AmountOverflow)
        ELSE LET a == checked_add(m.val, frac_value)
             IN  IF ~a.ok THEN Err(AmountOverflow) ELSE Ok(a.val)

\* Faulty variant of parse_kas_to_sompi: the length of the fraction is
\* checked before the whole part is parsed
parse_kas_to_sompi_len_first(s) ==
    LET raw == trim(s)
    IN  IF raw = <<>> THEN Err(EmptyAmount)
        ELSE
        LET parts == split(raw, ".")
        IN  IF Len(parts) >= 3 THEN Err(TooManyDecimalPoints)
            ELSE
            LET frac_str == FracSegment(parts)
            IN  IF Len(frac_str) > FRAC_DIGITS THEN Err(TooManyDecimals)
                ELSE
                LET whole == parse_u64(WholeSegment(parts))
                IN  IF ~whole.ok THEN Err(InvalidWholePart)
                    ELSE
                    LET frac_value == FracValue(frac_padded(frac_str))
                    IN  IF ~frac_value.ok THEN Err(InvalidFractionalPart)
                        ELSE ScaleAndAdd(whole.val, frac_value.val)

parse_kas_to_sompi(s) ==
    LET raw == trim(s)
    IN  IF raw = <<>> THEN Err(EmptyAmount)
        ELSE
        LET parts == split(raw, ".")
        IN  IF Len(parts) >= 3 THEN Err(TooManyDecimalPoints)
            ELSE
            LET whole == parse_u64(WholeSegment(parts))
            IN  IF ~whole.ok THEN Err(InvalidWholePart)
                ELSE
                LET frac_str == FracSegment(parts)
                IN  IF Len(frac_str) > FRAC_DIGITS THEN Err(TooManyDecimals)
                    ELSE
                    LET frac_value == FracValue(frac_padded(frac_str))
                    IN  IF ~frac_value.ok THEN Err(InvalidFractionalPart)
                        ELSE ScaleAndAdd(whole.val, frac_value.val)

----------------------------------------------------------------------------
(* f64: a NaN, an infinity, or a finite value given by its sign and the    *)
(* exact decimal expansion of its magnitude (every finite binary float has *)
(* a finite one): ip the integer digits, fp the fractional digits.         *)

Fin(neg, ip, fp) == [cls |-> "fin", neg |-> neg, ip |-> ip, fp |-> fp]
NaN              == [cls |-> "nan", neg |-> FALSE, ip |-> <<>>, fp |-> <<>>]
Inf(neg)         == [cls |-> "inf", neg |-> neg, ip |-> <<>>, fp |-> <<>>]

\* f64::is_finite
is_finite(f) == f.cls = "fin"

AllZero(ds) == \A i \in 1..Len(ds) : ds[i] = "0"

\* f < 0.0: false for a NaN and for both zeros
LtZero(f) ==
    /\ f.cls # "nan"
    /\ f.neg
    /\ (f.cls = "inf" \/ ~(AllZero(f.ip) /\ AllZero(f.fp)))

DigitChar(n) == <<"0", "1", "2", "3", "4", "5", "6", "7", "8", "9">>[n + 1]

\* Add one unit in the last place of a big-endian digit string
RECURSIVE IncDigits(_)
IncDigits(ds) ==
    IF ds = <<>> THEN <<"1">>
    ELSE LET front == SubSeq(ds, 1, Len(ds) - 1)
             last  == ds[Len(ds)]
         IN  IF last = "9" THEN IncDigits(front) \o <<"0">>
             ELSE Append(front, DigitChar(DigitVal(last) + 1))

\* Rounding of the exact formatter: up when the dropped digits are more
\* than half a unit, to even when they are exactly half.
RoundsUp(kept, rest) ==
    IF rest = <<>> THEN FALSE
    ELSE LET d == DigitVal(rest[1])
         IN  IF d > 5 THEN TRUE
             ELSE IF d < 5 THEN FALSE
             ELSE IF ~AllZero(Tail(rest)) THEN TRUE
             ELSE kept # <<>> /\ DigitVal(kept[Len(kept)]) % 2 = 1

\* format!("{:.prec}", f): the sign is printed for every negative value,
\* negative zero included
FormatFixed(f, prec) ==
    IF f.cls = "nan" THEN <<"N", "a", "N">>
    ELSE IF f.cls = "inf"
    THEN (IF f.neg THEN <<"-">> ELSE <<>>) \o <<"i", "n", "f">>
    ELSE LET fpp  == PadZeros(f.fp, prec)
             kept == f.ip \o SubSeq(fpp, 1, prec)
             rest == SubSeq(fpp, prec + 1, Len(fpp))
             r    == IF RoundsUp(kept, rest) THEN IncDigits(kept) ELSE kept
             n    == Len(r) - prec
         IN  (IF f.neg THEN <<"-">> ELSE <<>>)
               \o SubSeq(r, 1, n) \o <<".">> \o SubSeq(r, n + 1, Len(r))

----------------------------------------------------------------------------
(* deserialize_amount_per_claim: the match on the AmountField variant.     *)
(* A field value is [shape, sompi, float, text]; the result is paired with *)
(* whether parse_kas_to_sompi was called.                                  *)

Sompi(v)     == [shape |-> "Sompi",     sompi |-> v,    float |-> NaN, text |-> <<>>]
KasFloat(f)  == [shape |-> "KasFloat",  sompi |-> <<>>, float |-> f,   text |-> <<>>]
KasString(s) == [shape |-> "KasString", sompi |-> <<>>, float |-> NaN, text |-> s]
\* a direct call of parse_kas_to_sompi
Str(s)       == [shape |-> "Str",       sompi |-> <<>>, float |-> NaN, text |-> s]

Direct(r)  == [res |-> r, conv |-> FALSE]
Via(r)     == [res |-> r, conv |-> TRUE]

\* Faulty variant of SompiArm: the integer is taken for whole KAS and scaled
SompiArmAsKas(s) == Direct(ScaleAndAdd(s, <<>>))

\* AmountField::Sompi(s) => Ok(s)
SompiArm(s) == Direct(Ok(s))

\* AmountField::KasFloat(f)
KasFloatArm(f) ==
    IF ~is_finite(f) \/ LtZero(f) THEN Direct(Err(InvalidFloatAmount))
    ELSE Via(parse_kas_to_sompi(FormatFixed(f, 8)))

HasPoint(raw) == \E i \in 1..Len(raw) : raw[i] = "."

\* Faulty variant of KasStringArm: every text is taken for a KAS decimal
KasStringArmAlwaysKas(s) ==
    LET raw == trim(s)
    IN  IF raw = <<>> THEN Direct(Err(EmptyTextAmount))
        ELSE Via(parse_kas_to_sompi(raw))

\* Faulty variant of KasStringArm: the empty text is not rejected first and
\* reaches the converter
KasStringArmNoEmptyCheck(s) ==
    LET raw == trim(s)
    IN  IF HasPoint(raw) \/ raw = <<>> THEN Via(parse_kas_to_sompi(raw))
        ELSE LET r == parse_u64(raw)
             IN  Direct(IF r.ok THEN Ok(r.val) ELSE Err(InvalidIntegerText))

\* AmountField::KasString(s)
KasStringArm(s) ==
    LET raw == trim(s)
    IN  IF raw = <<>> THEN Direct(Err(EmptyTextAmount))
        ELSE IF HasPoint(raw) THEN Via(parse_kas_to_sompi(raw))
        ELSE LET r == parse_u64(raw)
             IN  Direct(IF r.ok THEN Ok(r.val) ELSE Err(InvalidIntegerText))

deserialize_amount_per_claim(v) ==
    CASE v.shape = "Sompi"     -> SompiArm(v.sompi)
      [] v.shape = "KasFloat"  -> KasFloatArm(v.float)
      [] v.shape = "KasString" -> KasStringArm(v.text)

----------------------------------------------------------------------------
(* Config::default *)

NoConfig == [kaspad_url |-> "", port |-> 0, faucet_private_key |-> "",
             amount_per_claim |-> <<>>, claim_interval_seconds |-> 0,
             loaded |-> FALSE]

Config_default ==
    [kaspad_url |-> "127.0.0.1:16210",
     port |-> 3010,
     faucet_private_key |-> "",
     amount_per_claim |-> Nat2N(100000000),
     claim_interval_seconds |-> 3600,
     loaded |-> TRUE]

----------------------------------------------------------------------------
(* Inputs *)

MaxLen == 3

MaxSompi == 20

Alphabet == {"0", "1", "5", "9", ".", "+", "-", " ", "a"}

\* Every text of at most MaxLen characters of the alphabet
ShortTexts == UNION {[1..k -> Alphabet] : k \in 0..MaxLen}

\* Whole-number segments: small values, leading zeros, the largest whole part
\* whose product with 10^8 fits (184467440737), the first that does not,
\* u64::MAX, u64::MAX + 1, a 23-digit number, signs and non-digits.
Wholes ==
    { <<>>,
      <<"0">>,
      <<"1">>,
      <<"7">>,
      <<"0", "0", "7">>,
      <<"1", "0", "0">>,
      <<"1", "2", "3", "4", "5">>,
      <<"1", "8", "4", "4", "6", "7", "4", "4", "0", "7", "3", "7">>,
      <<"1", "8", "4", "4", "6", "7", "4", "4", "0", "7", "3", "8">>,
      <<"1", "8", "4", "4", "6", "7", "4", "4", "0", "7", "3", "7", "0", "9", "5", "5", "1", "6", "1", "5">>,
      <<"1", "8", "4", "4", "6", "7", "4", "4", "0", "7", "3", "7", "0", "9", "5", "5", "1", "6", "1", "6">>,
      <<"9", "9", "9", "9", "9", "9", "9", "9", "9", "9", "9", "9", "9", "9", "9", "9", "9", "9", "9", "9", "9", "9", "9">>,
      <<"+", "1">>,
      <<"-", "1">>,
      <<"+">>,
      <<"1", "a">>,
      <<"1", " ">> }

\* What follows the whole segment: nothing, a lone '.', fractions of 1 to 8
\* digits (.09551615 is the largest that fits after 184467440737), fractions
\* of 9 characters, signs, non-digits, inner white space, further points.
Tails ==
    { <<>>,
      <<".">>,
      <<".", "0">>,
      <<".", "5">>,
      <<".", "0", "5">>,
      <<".", "0", "0", "1">>,
      <<".", "0", "0", "0", "0", "0", "0", "0", "1">>,
      <<".", "0", "9", "5", "5", "1", "6", "1", "5">>,
      <<".", "0", "9", "5", "5", "1", "6", "1", "6">>,
      <<".", "9", "9", "9", "9", "9", "9", "9", "9">>,
      <<".", "1", "2", "3", "4", "5", "6", "7", "8", "9">>,
      <<".", "0", "0", "0", "0", "0", "0", "0", "0", "0">>,
      <<".", "1", "2", "3", "4", "5", "6", "7", "a", "9">>,
      <<".", "+", "5">>,
      <<".", "-", "5">>,
      <<".", "5", "a">>,
      <<".", " ", "5", " ">>,
      <<".", "5", ".">>,
      <<".", "2", ".", "3">> }

FiniteFloats ==
    {
      \* 0.0
      Fin(FALSE, <<"0">>,
          <<>>),
      \* -0.0
      Fin(TRUE, <<"0">>,
          <<>>),
      \* 0.001
      Fin(FALSE, <<"0">>,
          <<"0", "0", "1", "0", "0", "0", "0", "0", "0", "0", "0", "0", "0", "0", "0", "0", "0", "0", "0", "2", "0", "8", "1", "6", "6", "8", "1", "7", "1", "1", "7", "2", "1", "6", "8", "5", "1", "3", "2", "9", "4", "3", "0", "9", "3", "7", "7", "6", "7", "0", "2", "8", "8", "0", "8", "5", "9", "3", "7", "5">>),
      \* 0.1
      Fin(FALSE, <<"0">>,
          <<"1", "0", "0", "0", "0", "0", "0", "0", "0", "0", "0", "0", "0", "0", "0", "0", "0", "5", "5", "5", "1", "1", "1", "5", "1", "2", "3", "1", "2", "5", "7", "8", "2", "7", "0", "2", "1", "1", "8", "1", "5", "8", "3", "4", "0", "4", "5", "4", "1", "0", "1", "5", "6", "2", "5">>),
      \* 0.5
      Fin(FALSE, <<"0">>,
          <<"5">>),
      \* 1.5
      Fin(FALSE, <<"1">>,
          <<"5">>),
      \* 100.0
      Fin(FALSE, <<"1", "0", "0">>,
          <<>>),
      \* 1/512 = 0.001953125
      Fin(FALSE, <<"0">>,
          <<"0", "0", "1", "9", "5", "3", "1", "2", "5">>),
      \* 3/512 = 0.005859375
      Fin(FALSE, <<"0">>,
          <<"0", "0", "5", "8", "5", "9", "3", "7", "5">>),
      \* 1e-9 = 1e-09
      Fin(FALSE, <<"0">>,
          <<"0", "0", "0", "0", "0", "0", "0", "0", "1", "0", "0", "0", "0", "0", "0", "0", "0", "0", "0", "0", "0", "0", "0", "0", "0", "6", "2", "2", "8", "1", "5", "9", "1", "4", "5", "7", "7", "7", "9", "8", "5", "6", "4", "1", "8", "8", "9", "7", "0", "6", "8", "6", "9", "2", "7", "8", "5", "9", "7", "8", "7", "8", "2", "9", "2", "2", "0", "2", "9", "4", "9", "5", "2", "3", "9", "2", "5", "7", "8", "1", "2", "5">>),
      \* 5e-9 = 5e-09
      Fin(FALSE, <<"0">>,
          <<"0", "0", "0", "0", "0", "0", "0", "0", "5", "0", "0", "0", "0", "0", "0", "0", "0", "0", "0", "0", "0", "0", "0", "0", "1", "0", "4", "6", "1", "2", "8", "0", "4", "1", "5", "0", "6", "4", "2", "3", "6", "3", "3", "7", "6", "6", "3", "3", "1", "7", "0", "4", "4", "6", "4", "3", "9", "1", "8", "0", "5", "2", "3", "1", "5", "7", "1", "1", "9", "7", "5", "0", "9", "7", "6", "5", "6", "2", "5">>),
      \* 0.999999995
      Fin(FALSE, <<"0">>,
          <<"9", "9", "9", "9", "9", "9", "9", "9", "5", "0", "0", "0", "0", "0", "0", "0", "3", "0", "3", "8", "7", "3", "5", "4", "8", "5", "4", "6", "1", "0", "7", "4", "8", "5", "8", "9", "0", "3", "8", "8", "4", "8", "8", "7", "6", "9", "5", "3", "1", "2", "5">>),
      \* 9.999999995
      Fin(FALSE, <<"9">>,
          <<"9", "9", "9", "9", "9", "9", "9", "9", "4", "9", "9", "9", "9", "9", "9", "5", "8", "6", "2", "9", "8", "1", "4", "5", "0", "0", "4", "5", "4", "8", "1", "3", "2", "4", "1", "9", "5", "8", "6", "1", "8", "1", "6", "4", "0", "6", "2", "5">>),
      \* 184467440737.0955
      Fin(FALSE, <<"1", "8", "4", "4", "6", "7", "4", "4", "0", "7", "3", "7">>,
          <<"0", "9", "5", "4", "8", "9", "5", "0", "1", "9", "5", "3", "1", "2", "5">>),
      \* 184467440737.09552
      Fin(FALSE, <<"1", "8", "4", "4", "6", "7", "4", "4", "0", "7", "3", "7">>,
          <<"0", "9", "5", "5", "2", "0", "0", "1", "9", "5", "3", "1", "2", "5">>),
      \* 184467440738.0
      Fin(FALSE, <<"1", "8", "4", "4", "6", "7", "4", "4", "0", "7", "3", "8">>,
          <<>>),
      \* 2^64 = 1.8446744073709552e+19
      Fin(FALSE, <<"1", "8", "4", "4", "6", "7", "4", "4", "0", "7", "3", "7", "0", "9", "5", "5", "1", "6", "1", "6">>,
          <<>>),
      \* -1.0
      Fin(TRUE, <<"1">>,
          <<>>),
      \* -0.5
      Fin(TRUE, <<"0">>,
          <<"5">>),
      \* -1e-9 = -1e-09
      Fin(TRUE, <<"0">>,
          <<"0", "0", "0", "0", "0", "0", "0", "0", "1", "0", "0", "0", "0", "0", "0", "0", "0", "0", "0", "0", "0", "0", "0", "0", "0", "6", "2", "2", "8", "1", "5", "9", "1", "4", "5", "7", "7", "7", "9", "8", "5", "6", "4", "1", "8", "8", "9", "7", "0", "6", "8", "6", "9", "2", "7", "8", "5", "9", "7", "8", "7", "8", "2", "9", "2", "2", "0", "2", "9", "4", "9", "5", "2", "3", "9", "2", "5", "7", "8", "1", "2", "5">>)
    }

Pads == {<<>>, <<" ">>}

\* Texts built from a whole segment and a tail, with optional outer space
LongTexts == {p \o w \o t \o p : p \in Pads, w \in Wholes, t \in Tails}

Texts == ShortTexts \cup LongTexts

Floats == FiniteFloats \cup {NaN, Inf(FALSE), Inf(TRUE)}

\* u64 values: the small ones, and values around 10^8 and at the top
Sompis ==
    {Nat2N(k) : k \in 0..MaxSompi}
      \cup {Nat2N(42), Nat2N(12345), Nat2N(100000), Nat2N(SOMPI_PER_KAS),
            DecN(U64_MAX), U64_MAX}

Inputs ==
    {Str(s) : s \in Texts} \cup {KasString(s) : s \in Texts}
      \cup {KasFloat(f) : f \in Floats} \cup {Sompi(v) : v \in Sompis}

----------------------------------------------------------------------------
(* The state machine: one input is drawn, the function it is for is        *)
(* applied once; independently the default configuration is built.         *)

NoResult == Err("")

Init ==
    /\ input \in Inputs
    /\ pc = "ready"
    /\ out = NoResult
    /\ convCalled = FALSE
    /\ config = NoConfig

\* A direct call parse_kas_to_sompi(s)
Convert ==
    /\ pc = "ready"
    /\ input.shape = "Str"
    /\ out' = parse_kas_to_sompi(input.text)
    /\ convCalled' = TRUE
    /\ pc' = "done"
    /\ UNCHANGED <<input, config>>

\* serde calls deserialize_amount_per_claim on the field's value
Deserialize ==
    /\ pc = "ready"
    /\ input.shape # "Str"
    /\ LET r == deserialize_amount_per_claim(input)
       IN  /\ out' = r.res
           /\ convCalled' = r.conv
    /\ pc' = "done"
    /\ UNCHANGED <<input, config>>

\* Config::load without a config file builds Config::default()
LoadDefault ==
    /\ ~config.loaded
    /\ config' = Config_default
    /\ UNCHANGED <<input, pc, out, convCalled>>

Next == Convert \/ Deserialize \/ LoadDefault

Spec == Init /\ [][Next]_vars

----------------------------------------------------------------------------
(* Vocabulary of the properties, defined on the text itself and not        *)
(* through the functions above.                                            *)

Done(shape) == pc = "done" /\ input.shape = shape

\* The text without its outer white space
Core(s) ==
    LET idx == {i \in 1..Len(s) : ~IsWhite(s[i])}
    IN  IF idx = {} THEN <<>>
        ELSE SubSeq(s, CHOOSE i \in idx : \A j \in idx : i <= j,
                       CHOOSE i \in idx : \A j \in idx : i >= j)

Points(c) == {i \in 1..Len(c) : c[i] = "."}

FirstPoint(c) == CHOOSE i \in Points(c) : \A j \in Points(c) : i <= j

\* What stands before the first '.', and what stands after it
WholeOf(c) == IF Points(c) = {} THEN c ELSE SubSeq(c, 1, FirstPoint(c) - 1)
FracOf(c)  == IF Points(c) = {} THEN <<>> ELSE SubSeq(c, FirstPoint(c) + 1, Len(c))

IsDigits(s) == \A i \in 1..Len(s) : s[i] \in Digit

\* The number a digit string denotes
ValueOf(ds) == Norm([i \in 1..Len(ds) |-> DigitVal(ds[Len(ds) + 1 - i])])

Zeros(n) == IF n <= 0 THEN <<>> ELSE [i \in 1..n |-> "0"]

\* W, "W." or "W.F" with W digits and F at most 8 digits
IsDecimal(c) ==
    /\ Cardinality(Points(c)) <= 1
    /\ WholeOf(c) # <<>> /\ IsDigits(WholeOf(c))
    /\ IsDigits(FracOf(c)) /\ Len(FracOf(c)) <= 8

\* W * 10^8 + (F right-padded to 8 digits): the digits of W followed by
\* those of the padded F
Exact(c) == ValueOf(WholeOf(c) \o FracOf(c) \o Zeros(8 - Len(FracOf(c))))

Txt == Core(input.text)

----------------------------------------------------------------------------
\* C1: a direct conversion of W, "W." or "W.F" (F of 1 to 8 digits, outer
\* white space allowed) whose exact value W * 10^8 + pad(F) is at most
\* 2^64 - 1 returns exactly that value; "1.5" gives 150_000_000 and
\* "0.00000001" gives 1.
C1_ConvertExact ==
    Done("Str") =>
      /\ (IsDecimal(Txt) /\ IsU64(Exact(Txt))) => out = Ok(Exact(Txt))
      /\ (IsDecimal(Txt) /\ FracOf(Txt) = <<>> /\ IsU64(Exact(Txt)))
            => out = Ok(MulN(ValueOf(WholeOf(Txt)), Nat2N(SOMPI_PER_KAS)))
      /\ Txt = <<"1", ".", "5">> => out = Ok(Nat2N(150000000))
      /\ Txt = <<"0", ".", "0", "0", "0", "0", "0", "0", "0", "1">> => out = Ok(Nat2N(1))

\* C1 witness: a fraction shorter than 8 digits was padded and added to a
\* non-zero whole part.
C1_Witness ==
    /\ Done("Str") /\ IsDecimal(Txt)
    /\ Len(FracOf(Txt)) \in 1..7 /\ ~AllZero(FracOf(Txt)) /\ ~AllZero(WholeOf(Txt))
    /\ out.ok /\ Len(out.val) > 9

\* C2: a Text without '.' is parsed as a u64 and returned as it is, the
\* converter not being called; a Text with '.' gives exactly what the
\* converter gives on the trimmed text; hence "W.0" resolves to 10^8 times
\* what "W" resolves to.
C2_TextDispatch ==
    Done("KasString") /\ Txt # <<>> =>
      /\ Points(Txt) = {} =>
            /\ ~convCalled
            /\ (IsDigits(Txt) /\ IsU64(ValueOf(Txt))) => out = Ok(ValueOf(Txt))
            /\ out.ok => out.val = parse_u64(Txt).val
      /\ Points(Txt) # {} =>
            /\ convCalled
            /\ out = parse_kas_to_sompi(Txt)
      /\ (IsDigits(Txt) /\ IsU64(ValueOf(Txt \o Zeros(8)))) =>
            /\ out.ok
            /\ KasStringArm(Txt \o <<".", "0">>).res
                  = Ok(MulN(out.val, Nat2N(SOMPI_PER_KAS)))

\* C2 witness: a bare integer text of three digits resolved to itself while
\* the same text followed by ".0" resolves to a value 10^8 times larger.
C2_Witness ==
    /\ Done("KasString") /\ IsDigits(Txt) /\ Len(Txt) = 3 /\ ~AllZero(Txt)
    /\ out = Ok(ValueOf(Txt))
    /\ KasStringArm(Txt \o <<".", "0">>).res.val # out.val

\* C3 (as claimed): every W, "W." or "W.F" whose exact value exceeds
\* 2^64 - 1 fails with AmountOverflow.
C3_Original ==
    (Done("Str") /\ IsDecimal(Txt) /\ ~IsU64(Exact(Txt)))
       => (~out.ok /\ out.err = AmountOverflow)

\* C3 (amended): for W, "W." or "W.F": a W above 2^64 - 1 fails with
\* InvalidWholePart; a W that fits with W * 10^8 + pad(F) above 2^64 - 1
\* fails with AmountOverflow; a value that is returned is the exact value and
\* is at most 2^64 - 1, never a truncated or wrapped one.
C3_OverflowIsAnError ==
    Done("Str") =>
      /\ out.ok => IsU64(out.val)
      /\ (IsDecimal(Txt) /\ out.ok) => out.val = Exact(Txt)
      /\ (IsDecimal(Txt) /\ ~IsU64(ValueOf(WholeOf(Txt))))
            => (~out.ok /\ out.err = InvalidWholePart)
      /\ (IsDecimal(Txt) /\ IsU64(ValueOf(WholeOf(Txt))) /\ ~IsU64(Exact(Txt)))
            => (~out.ok /\ out.err = AmountOverflow)

\* C3 witness: the product W * 10^8 fits and the addition of the fraction
\* does not.
C3_Witness ==
    /\ Done("Str") /\ IsDecimal(Txt)
    /\ IsU64(ValueOf(WholeOf(Txt) \o Zeros(8)))
    /\ ~IsU64(Exact(Txt))
    /\ out = Err(AmountOverflow)

\* C4: an input with a '+' or a '-' in its whole or fractional segment is
\* never converted to an amount.
C4_NoSign ==
    (Done("Str") /\ \E i \in 1..Len(Txt) : Txt[i] \in {"+", "-"}) => ~out.ok

\* The values nearest to f * 10^8, f >= 0 finite: one, or two at a tie
Nearest(f) ==
    LET fpp  == f.fp \o Zeros(8 - Len(f.fp))
        low  == ValueOf(f.ip \o SubSeq(fpp, 1, 8))
        high == AddN(low, <<1>>)
        rest == SubSeq(fpp, 9, Len(fpp))
    IN  IF rest = <<>> \/ DigitVal(rest[1]) < 5 THEN {low}
        ELSE IF DigitVal(rest[1]) > 5 \/ ~AllZero(Tail(rest)) THEN {high}
        ELSE {low, high}

IsNegative(f) == f.neg /\ ~(f.cls = "fin" /\ AllZero(f.ip) /\ AllZero(f.fp))

\* C5: a Float that is NaN, infinite or negative fails with
\* InvalidFloatAmount without a call of the converter; every other Float,
\* negative zero included, whose value rounded at the 8th fractional digit
\* fits 2^64 - 1 resolves to that rounded value.
C5_FloatResolve ==
    Done("KasFloat") =>
      LET f == input.float
      IN  IF f.cls # "fin" \/ IsNegative(f)
          THEN out = Err(InvalidFloatAmount) /\ ~convCalled
          ELSE (\A n \in Nearest(f) : IsU64(n)) => (out.ok /\ out.val \in Nearest(f))

\* C5 without negative zero (what the code does for the other floats)
C5_ExceptNegativeZero ==
    (Done("KasFloat") /\ ~(input.float.neg /\ ~IsNegative(input.float)))
       => C5_FloatResolve

\* C6: "." followed by 1 to 8 digits F converts to the value of F padded.
C6_AbsentWholeIsZero ==
    (Done("Str") /\ Txt # <<>> /\ Head(Txt) = "."
       /\ Len(Txt) \in 2..9 /\ IsDigits(Tail(Txt)))
       => out = Ok(ValueOf(Tail(Txt) \o Zeros(9 - Len(Txt))))

\* C7: an Integer field is returned as it is, for every u64, without a
\* failure, a scaling or a call of the converter.
C7_IntegerPassThrough ==
    Done("Sompi") => (out = Ok(input.sompi) /\ ~convCalled)

\* C7 witness: the largest u64 came back unchanged.
C7_Witness ==
    Done("Sompi") /\ input.sompi = U64_MAX /\ out = Ok(U64_MAX)

\* C8: the default amount_per_claim is what "0.001" converts to and what
\* Float(0.001) resolves to.
C8_DefaultIsOneThousandthKas ==
    (/\ config.loaded
     /\ pc = "done"
     /\ \/ input.shape \in {"Str", "KasString"} /\ Txt = <<"0", ".", "0", "0", "1">>
        \/ /\ input.shape = "KasFloat" /\ input.float.cls = "fin" /\ ~input.float.neg
           /\ Nearest(input.float) = {Nat2N(100000)})
       => (out.ok /\ config.amount_per_claim = out.val)

\* The rules an input of the converter can break, in the order of C9
TrimmedWhole(c) == Core(WholeOf(c))
TrimmedFrac(c)  ==
    LET f == FracOf(c)
    IN  Core(IF Points(f) = {} THEN f ELSE SubSeq(f, 1, FirstPoint(f) - 1))

Breaks(c) ==
    <<c = <<>>,
      Cardinality(Points(c)) >= 2,
      ~parse_u64(TrimmedWhole(c)).ok,
      Len(TrimmedFrac(c)) > 8,
      ~parse_u64(TrimmedFrac(c) \o Zeros(8 - Len(TrimmedFrac(c)))).ok,
      ~IsU64(AddN(MulN(parse_u64(TrimmedWhole(c)).val, Nat2N(SOMPI_PER_KAS)),
                  parse_u64(TrimmedFrac(c) \o Zeros(8 - Len(TrimmedFrac(c)))).val))>>

ErrorOrder ==
    <<EmptyAmount, TooManyDecimalPoints, InvalidWholePart, TooManyDecimals,
      InvalidFractionalPart, AmountOverflow>>

\* Rule k is the first one the input breaks
FirstBroken(c, k) ==
    /\ Breaks(c)[k]
    /\ \A j \in 1..(k - 1) : ~Breaks(c)[j]

\* C9: the converter reports the first broken rule in the order EmptyAmount,
\* TooManyDecimalPoints, InvalidWholePart, TooManyDecimals,
\* InvalidFractionalPart, AmountOverflow, whatever later rule is broken too.
C9_ErrorOrder ==
    Done("Str") =>
      /\ \A k \in 1..6 : FirstBroken(Txt, k) => out = Err(ErrorOrder[k])
      /\ ~out.ok => \E k \in 1..6 : out.err = ErrorOrder[k]

\* C9 witness: a whole part with a letter and a fraction of more than 8
\* characters at once, reported as InvalidWholePart.
C9_Witness ==
    /\ Done("Str")
    /\ \E i \in 1..Len(TrimmedWhole(Txt)) : TrimmedWhole(Txt)[i] = "a"
    /\ Len(TrimmedFrac(Txt)) > 8
    /\ out = Err(InvalidWholePart)

ConverterErrors ==
    {EmptyAmount, TooManyDecimalPoints, InvalidWholePart, TooManyDecimals,
     InvalidFractionalPart, AmountOverflow}

\* C10: an empty Text fails with EmptyTextAmount; a Text without '.' fails
\* only with InvalidIntegerText, also when its digits exceed 2^64 - 1; a
\* Text with '.' and a Float that passed the check fail only with a
\* converter error other than EmptyAmount; an Integer never fails.
C10_ErrorPartition ==
    (pc = "done" /\ input.shape # "Str") =>
      /\ out.ok \/ out.err # EmptyAmount
      /\ (input.shape = "KasString" /\ Txt = <<>>) => out = Err(EmptyTextAmount)
      /\ (input.shape = "KasString" /\ Txt # <<>> /\ Points(Txt) = {}) =>
            /\ ~out.ok => out.err = InvalidIntegerText
            /\ (IsDigits(Txt) /\ ~IsU64(ValueOf(Txt))) => out = Err(InvalidIntegerText)
      /\ (input.shape = "KasString" /\ Points(Txt) # {} /\ ~out.ok)
            => out.err \in ConverterErrors \ {EmptyAmount}
      /\ (input.shape = "KasFloat" /\ input.float.cls = "fin"
            /\ ~IsNegative(input.float) /\ ~out.ok)
            => out.err \in ConverterErrors \ {EmptyAmount}
      /\ input.shape = "Sompi" => out.ok

\* C10 witness: a Text of digits above 2^64 - 1, without '.', failed with
\* InvalidIntegerText.
C10_Witness ==
    /\ Done("KasString") /\ Points(Txt) = {} /\ IsDigits(Txt) /\ Txt # <<>>
    /\ ~IsU64(ValueOf(Txt))
    /\ out = Err(InvalidIntegerText)

====
